---- MODULE Spec2Model ----
(***************************************************************************)
(* Model of binance/orderbook/orderbook_local.py: an in-memory order book  *)
(* seeded from a snapshot, mutated by depth-update events, sampled into a  *)
(* list of projections, and diffed against the initial book to produce a   *)
(* single revert event.                                                    *)
(*                                                                         *)
(* Representation.  A JSON text is a TLA+ string.  A level row is a        *)
(* sequence of texts (a well-shaped row has two).  A book side is a Python *)
(* dict {price text: quantity text}; since Python dicts iterate in         *)
(* insertion order and the sorts of the program are stable, a side is      *)
(* modelled as the sequence of its <<price, quantity>> items in insertion  *)
(* order, with no price text occurring twice.                              *)
(***************************************************************************)
EXTENDS Integers, Sequences, FiniteSets, TLC

VARIABLES
    pc,            \* position of main(): "build", "loop", "done", "error"; of the apply harness: "call", "applied", "twice", "failed"
    snapshot,      \* args.snapshot together with the loaded snap_payload
    final_only,    \* args.final_only
    store_every,   \* args.store_every
    initial_book,  \* main(): initial_book
    book,          \* main(): book, the working copy mutated by apply_event
    n,             \* main(): n, the event counter of the stride loop
    states,        \* main(): states, the stored projections
    item,          \* the update object most recently taken from upd_payload
    pre_book,      \* the working book as it was when that object was taken
    events,        \* the normalised events apply_event has completed, in order
    err,           \* the exception that ended the run, or NoErr
    dumped,        \* what dump_text(states, args.dump) wrote, or NotWritten
    revert         \* what generate_revert_update returned to be emitted, or NotWritten

vars == <<pc, snapshot, final_only, store_every, initial_book, book, n, states,
          item, pre_book, events, err, dumped, revert>>

----------------------------------------------------------------------------
(* Decimal texts *)

\* The fractional digits of the default zero sentinel "0.00000000"; also the
\* scale at which decimal values are compared exactly as integers.
DecScale == 8

ZeroFmt == "0.00000000"

RECURSIVE Pow10(_)
Pow10(k) == IF k = 0 THEN 1 ELSE 10 * Pow10(k - 1)

\* The texts that are not JSON strings (a JSON number written in the payload).
NonText == {"<number 5>"}

\* decimal.Decimal(s): sign, coefficient and exponent of a text, or the
\* InvalidOperation raised for a text that is no decimal literal.  "NaN" is a
\* literal Decimal accepts; its value is no number (nan) and comparing it
\* raises InvalidOperation.
Decimal(s) ==
    CASE s = "9.5"        -> [valid |-> TRUE, nan |-> FALSE, sign |-> 1, coef |-> 95, exp |-> -1]
      [] s = "10.2"       -> [valid |-> TRUE, nan |-> FALSE, sign |-> 1, coef |-> 102, exp |-> -1]
      [] s = "10.20"      -> [valid |-> TRUE, nan |-> FALSE, sign |-> 1, coef |-> 1020, exp |-> -2]
      [] s = "0"          -> [valid |-> TRUE, nan |-> FALSE, sign |-> 1, coef |-> 0, exp |-> 0]
      [] s = "0.0"        -> [valid |-> TRUE, nan |-> FALSE, sign |-> 1, coef |-> 0, exp |-> -1]
      [] s = "0.00000000" -> [valid |-> TRUE, nan |-> FALSE, sign |-> 1, coef |-> 0, exp |-> -8]
      [] s = "2"          -> [valid |-> TRUE, nan |-> FALSE, sign |-> 1, coef |-> 2, exp |-> 0]
      [] s = "3"          -> [valid |-> TRUE, nan |-> FALSE, sign |-> 1, coef |-> 3, exp |-> 0]
      [] s = "-1"         -> [valid |-> TRUE, nan |-> FALSE, sign |-> -1, coef |-> 1, exp |-> 0]
      [] s = "NaN"        -> [valid |-> TRUE, nan |-> TRUE, sign |-> 1, coef |-> 0, exp |-> 0]
      [] OTHER            -> [valid |-> FALSE, nan |-> FALSE, sign |-> 1, coef |-> 0, exp |-> 0]

\* The exact value of a valid decimal text, as an integer number of 10^-DecScale.
DecValue(s) ==
    LET d == Decimal(s) IN d.sign * d.coef * Pow10(d.exp + DecScale)

DecEq(s, t) == DecValue(s) = DecValue(t)

----------------------------------------------------------------------------
(* Errors *)

NoErr == [kind |-> "none", label |-> "", index |-> -1]

Raise(kind, label, index) == [kind |-> kind, label |-> label, index |-> index]

NotWritten == [written |-> FALSE, value |-> <<>>]

Written(v) == [written |-> TRUE, value |-> v]

----------------------------------------------------------------------------
(* parse_levels *)

\* The check parse_levels makes on one row, in the order the code makes it:
\* the kind of ValueError raised, or "none".  The test "qd < 0" stands outside
\* the try block: on a NaN quantity it raises decimal.InvalidOperation, which
\* nothing turns into a ValueError ("invalid_operation").
RowError(row) ==
    IF Len(row) # 2 THEN "pair"
    ELSE IF row[1] \in NonText \/ row[2] \in NonText THEN "text"
    ELSE IF ~Decimal(row[1]).valid \/ ~Decimal(row[2]).valid THEN "decimal"
    ELSE IF Decimal(row[2]).nan THEN "invalid_operation"
    ELSE IF DecValue(row[2]) < 0 THEN "negative"
    ELSE "none"

\* The exception raised for the row at position i (1-based): the ValueErrors
\* name the label and the 0-based index, the InvalidOperation names neither.
RowRaise(kind, label, i) ==
    IF kind = "invalid_operation" THEN Raise(kind, "", -1) ELSE Raise(kind, label, i - 1)

\* The raw values the message of a ValueError shows: the row for an invalid
\* decimal and for a negative quantity ("...at index {i}: {row}"), nothing for
\* a non-pair and for a non-text field ("(index {i})").
MessageRow(kind, row) == IF kind \in {"decimal", "negative"} THEN row ELSE <<>>

\* Position (1-based) of the first row parse_levels rejects, 0 if none.
FirstBad(levels) ==
    LET bad == {i \in 1..Len(levels) : RowError(levels[i]) # "none"}
    IN IF bad = {} THEN 0 ELSE CHOOSE i \in bad : \A j \in bad : i <= j

\* parse_levels that counts the rows from 1 in its error.
parse_levels_from_one(levels, label) ==
    LET i == FirstBad(levels)
    IN IF i = 0
       THEN [ok |-> TRUE, out |-> levels, err |-> NoErr]
       ELSE [ok |-> FALSE, out |-> <<>>, err |-> RowRaise(RowError(levels[i]), label, i + 1)]

\* parse_levels(levels, label) for a list: the rows as given, or the error
\* naming the label and the (0-based) index of the first offending row.
parse_levels(levels, label) ==
    LET i == FirstBad(levels)
    IN IF i = 0
       THEN [ok |-> TRUE, out |-> levels, err |-> NoErr]
       ELSE [ok |-> FALSE, out |-> <<>>, err |-> RowRaise(RowError(levels[i]), label, i)]

----------------------------------------------------------------------------
(* dict operations on one side *)

Keys(d) == {d[i][1] : i \in 1..Len(d)}

HasKey(d, p) == p \in Keys(d)

\* d.get(p): the quantity text stored under the price text p (p must be a key).
Get(d, p) == d[CHOOSE i \in 1..Len(d) : d[i][1] = p][2]

\* d[p] = q: an existing key keeps its position, a new key goes last.
DictSet(d, p, q) ==
    IF HasKey(d, p)
    THEN [i \in 1..Len(d) |-> IF d[i][1] = p THEN <<p, q>> ELSE d[i]]
    ELSE Append(d, <<p, q>>)

\* d.pop(p, None)
DictPop(d, p) == SelectSeq(d, LAMBDA it : it[1] # p)

\* Upsert that recognises a removal by the text "0" instead of the value zero.
UpsertTextZero(d, p, q) ==
    IF q = "0" THEN DictPop(d, p) ELSE DictSet(d, p, q)

\* The body of the loops of apply_event for one parsed row.
Upsert(d, p, q) ==
    IF DecValue(q) = 0 THEN DictPop(d, p) ELSE DictSet(d, p, q)

\* The loop run over the list from its end.
RECURSIVE UpsertAllReversed(_, _)
UpsertAllReversed(d, rows) ==
    IF rows = <<>> THEN d
    ELSE UpsertAllReversed(Upsert(d, rows[Len(rows)][1], rows[Len(rows)][2]),
                           SubSeq(rows, 1, Len(rows) - 1))

\* The loop "for p, q in parse_levels(...)" of apply_event over the parsed rows.
RECURSIVE UpsertAll(_, _)
UpsertAll(d, rows) ==
    IF rows = <<>> THEN d
    ELSE UpsertAll(Upsert(d, rows[1][1], rows[1][2]), Tail(rows))

----------------------------------------------------------------------------
(* Book operations *)

new_empty_book == [ask |-> <<>>, bid |-> <<>>]

\* The loop "for p, q in asks: book[side][p] = q" of book_from_snapshot.
RECURSIVE SetAll(_, _)
SetAll(d, rows) ==
    IF rows = <<>> THEN d
    ELSE SetAll(DictSet(d, rows[1][1], rows[1][2]), Tail(rows))

\* A JSON member of an object: a list, null, another value, or no member.
\* snap.get(key, []) and payload.get(key, []) give [] for an absent member.
ListField(v) == [t |-> "list", v |-> v]
AbsentField == [t |-> "absent", v |-> <<>>]
NullField == [t |-> "null", v |-> <<>>]
OtherField == [t |-> "other", v |-> <<>>]

\* parse_levels on a member of a snapshot object: None and an absent member
\* (defaulted to []) give no levels, a non-list is rejected.
parse_field(f, label) ==
    CASE f.t = "list"   -> parse_levels(f.v, label)
      [] f.t = "absent" -> [ok |-> TRUE, out |-> <<>>, err |-> NoErr]
      [] f.t = "null"   -> [ok |-> TRUE, out |-> <<>>, err |-> NoErr]
      [] OTHER          -> [ok |-> FALSE, out |-> <<>>, err |-> Raise("notlist", label, -1)]

\* book_from_snapshot(snap): both lists are parsed before any level is stored.
book_from_snapshot(snap) ==
    LET asks == parse_field(snap.asks, "asks")
        bids == parse_field(snap.bids, "bids")
    IN IF ~asks.ok THEN [ok |-> FALSE, book |-> new_empty_book, err |-> asks.err]
       ELSE IF ~bids.ok THEN [ok |-> FALSE, book |-> new_empty_book, err |-> bids.err]
       ELSE [ok |-> TRUE,
             book |-> [ask |-> SetAll(<<>>, asks.out), bid |-> SetAll(<<>>, bids.out)],
             err |-> NoErr]

\* Some zero-quantity row names a price that is absent when its turn comes.
RECURSIVE PopsAbsent(_, _)
PopsAbsent(d, rows) ==
    /\ rows # <<>>
    /\ \/ DecValue(rows[1][2]) = 0 /\ ~HasKey(d, rows[1][1])
       \/ PopsAbsent(Upsert(d, rows[1][1], rows[1][2]), Tail(rows))

\* apply_event that removes with "del book[side][p]": a zero-quantity row for
\* an absent price raises KeyError.
apply_event_del(b, event) ==
    LET bids == parse_levels(event.b, "bids")
        b1 == [b EXCEPT !.bid = UpsertAll(b.bid, bids.out)]
        asks == parse_levels(event.a, "asks")
        b2 == [b1 EXCEPT !.ask = UpsertAll(b1.ask, asks.out)]
    IN IF ~bids.ok THEN [ok |-> FALSE, book |-> b, err |-> bids.err]
       ELSE IF PopsAbsent(b.bid, bids.out) THEN [ok |-> FALSE, book |-> b1, err |-> Raise("key", "bids", -1)]
       ELSE IF ~asks.ok THEN [ok |-> FALSE, book |-> b1, err |-> asks.err]
       ELSE IF PopsAbsent(b.ask, asks.out) THEN [ok |-> FALSE, book |-> b2, err |-> Raise("key", "asks", -1)]
       ELSE [ok |-> TRUE, book |-> b2, err |-> NoErr]

\* apply_event that validates both lists before it applies either, so that a
\* rejected ask list leaves the bid list unapplied.
apply_event_atomic(b, event) ==
    LET bids == parse_levels(event.b, "bids")
        b1 == [b EXCEPT !.bid = UpsertAll(b.bid, bids.out)]
        asks == parse_levels(event.a, "asks")
        b2 == [b1 EXCEPT !.ask = UpsertAll(b1.ask, asks.out)]
    IN IF ~bids.ok THEN [ok |-> FALSE, book |-> b, err |-> bids.err]
       ELSE IF ~asks.ok THEN [ok |-> FALSE, book |-> b, err |-> asks.err]
       ELSE [ok |-> TRUE, book |-> b2, err |-> NoErr]

\* apply_event that applies each row as soon as it has validated it, so that
\* the valid rows before a malformed one are applied.
apply_event_rowwise(b, event) ==
    LET bids == parse_levels(event.b, "bids")
        kb == IF bids.ok THEN Len(event.b) ELSE FirstBad(event.b) - 1
        b1 == [b EXCEPT !.bid = UpsertAll(b.bid, SubSeq(event.b, 1, kb))]
        asks == parse_levels(event.a, "asks")
        ka == IF asks.ok THEN Len(event.a) ELSE FirstBad(event.a) - 1
        b2 == [b1 EXCEPT !.ask = UpsertAll(b1.ask, SubSeq(event.a, 1, ka))]
    IN IF ~bids.ok THEN [ok |-> FALSE, book |-> b1, err |-> bids.err]
       ELSE IF ~asks.ok THEN [ok |-> FALSE, book |-> b2, err |-> asks.err]
       ELSE [ok |-> TRUE, book |-> b2, err |-> NoErr]

\* apply_event(book, event): the bid list is parsed whole, then applied row by
\* row; then the ask list is parsed whole, then applied.  The book is mutated
\* in place, so what was applied before an exception stays.
apply_event(b, event) ==
    LET bids == parse_levels(event.b, "bids")
        b1 == [b EXCEPT !.bid = UpsertAll(b.bid, bids.out)]
        asks == parse_levels(event.a, "asks")
        b2 == [b1 EXCEPT !.ask = UpsertAll(b1.ask, asks.out)]
    IN IF ~bids.ok THEN [ok |-> FALSE, book |-> b, err |-> bids.err]
       ELSE IF ~asks.ok THEN [ok |-> FALSE, book |-> b1, err |-> asks.err]
       ELSE [ok |-> TRUE, book |-> b2, err |-> NoErr]

----------------------------------------------------------------------------
(* Sorting and projection *)

\* list.sort(key=Decimal(price)) is stable, also with reverse=True: items
\* whose keys are equal keep the order they had.  Insert x behind every item
\* that does not have to come after it.
RECURSIVE InsertSorted(_, _, _)
InsertSorted(sorted, x, side) ==
    IF sorted = <<>> THEN <<x>>
    ELSE LET h == sorted[1]
             before == IF side = "ask" THEN DecValue(x[1]) < DecValue(h[1])
                                       ELSE DecValue(x[1]) > DecValue(h[1])
         IN IF before THEN <<x>> \o sorted
            ELSE <<h>> \o InsertSorted(Tail(sorted), x, side)

RECURSIVE SortByPrice(_, _)
SortByPrice(rows, side) ==
    IF rows = <<>> THEN <<>>
    ELSE InsertSorted(SortByPrice(SubSeq(rows, 1, Len(rows) - 1), side),
                      rows[Len(rows)], side)

\* sorted(...) compares the keys of a side of two or more prices; a NaN key
\* among them makes the comparison raise decimal.InvalidOperation.
sort_raises(book_side) ==
    Len(book_side) >= 2 /\ \E i \in 1..Len(book_side) : Decimal(book_side[i][1]).nan

\* sorted_side that returns the side in the order of the dict.
sorted_side_unsorted(book_side, side) == book_side

\* sorted_side(book_side, side): asks ascending, bids descending by Decimal(price).
sorted_side(book_side, side) == SortByPrice(book_side, side)

\* book_to_levels(book): fresh lists of fresh [p, q] pairs.
book_to_levels(b) ==
    [asks |-> sorted_side(b.ask, "ask"), bids |-> sorted_side(b.bid, "bid")]

----------------------------------------------------------------------------
(* generate_revert_update *)

\* The first loop without its "q_tgt != q_cur" test: every price of cur is emitted.
RemovalsAndChangesUntested(cur, tgt, zero_fmt) ==
    [i \in 1..Len(cur) |->
        IF HasKey(tgt, cur[i][1])
        THEN <<cur[i][1], Get(tgt, cur[i][1])>>
        ELSE <<cur[i][1], zero_fmt>>]

\* The two loops of side_diff before the sort: removals and changes in the
\* order of cur, then additions in the order of tgt.
RemovalsAndChanges(cur, tgt, zero_fmt) ==
    LET touched == SelectSeq(cur, LAMBDA it :
                       ~HasKey(tgt, it[1]) \/ Get(tgt, it[1]) # it[2])
    IN [i \in 1..Len(touched) |->
           IF HasKey(tgt, touched[i][1])
           THEN <<touched[i][1], Get(tgt, touched[i][1])>>
           ELSE <<touched[i][1], zero_fmt>>]

\* The second loop of side_diff left out: no addition is emitted.
AdditionsDropped(cur, tgt) == <<>>

Additions(cur, tgt) == SelectSeq(tgt, LAMBDA it : ~HasKey(cur, it[1]))

\* side_diff without its final "out.sort(...)".
side_diff_unsorted(current_book, target_book, side, zero_fmt) ==
    LET cur == IF side = "ask" THEN current_book.ask ELSE current_book.bid
        tgt == IF side = "ask" THEN target_book.ask ELSE target_book.bid
    IN RemovalsAndChanges(cur, tgt, zero_fmt) \o Additions(cur, tgt)

side_diff(current_book, target_book, side, zero_fmt) ==
    LET cur == IF side = "ask" THEN current_book.ask ELSE current_book.bid
        tgt == IF side = "ask" THEN target_book.ask ELSE target_book.bid
    IN SortByPrice(RemovalsAndChanges(cur, tgt, zero_fmt) \o Additions(cur, tgt), side)

\* The update object {"data": {"e": "depthUpdate", "b": ..., "a": ...}}.
generate_revert_update(current_book, target_book, zero_fmt) ==
    [shape |-> "nested",
     a |-> [t |-> "absent", v |-> <<>>],
     b |-> [t |-> "absent", v |-> <<>>],
     data |-> [a |-> ListField(side_diff(current_book, target_book, "ask", zero_fmt)),
               b |-> ListField(side_diff(current_book, target_book, "bid", zero_fmt))]]

----------------------------------------------------------------------------
(* Update objects *)

\* An item of the updates list.  shape: "flat" (an object without a "data"
\* member), "nested" (an object whose "data" member is an object), "scalar"
\* (not an object), "data_scalar" (an object whose "data" member is not an
\* object).  a, b: the object's own members "a" and "b"; data: the members
\* "a" and "b" of its "data" object.
NoData == [a |-> AbsentField, b |-> AbsentField]
FlatItem(a, b) == [shape |-> "flat", a |-> a, b |-> b, data |-> NoData]
NestedItem(a, b) ==
    [shape |-> "nested", a |-> AbsentField, b |-> AbsentField, data |-> [a |-> a, b |-> b]]
\* An object that holds a/b itself and a "data" object as well.
BothItem(da, db, a, b) == [shape |-> "nested", a |-> a, b |-> b, data |-> [a |-> da, b |-> db]]
ScalarItem == [shape |-> "scalar", a |-> AbsentField, b |-> AbsentField, data |-> NoData]
DataScalarItem == [shape |-> "data_scalar", a |-> AbsentField, b |-> AbsentField, data |-> NoData]

NoItem == [shape |-> "none", a |-> AbsentField, b |-> AbsentField, data |-> NoData]

\* payload.get(key, []) followed by the isinstance(..., list) test.
FieldIsList(f) == f.t \in {"list", "absent"}

\* payload = item.get("data", item)
payload(it) == IF it.shape = "nested" THEN it.data ELSE [a |-> it.a, b |-> it.b]

\* iter_depth_events that reads a/b from the object itself whenever it holds
\* one of them, and from its "data" object otherwise.
iter_depth_events_own_first(it, i) ==
    LET pl == IF it.a.t # "absent" \/ it.b.t # "absent" THEN [a |-> it.a, b |-> it.b]
              ELSE payload(it)
    IN IF it.shape = "scalar"
       THEN [ok |-> FALSE, ev |-> [a |-> <<>>, b |-> <<>>], err |-> Raise("item", "", i)]
       ELSE IF it.shape = "data_scalar"
       THEN [ok |-> FALSE, ev |-> [a |-> <<>>, b |-> <<>>], err |-> Raise("payload", "", i)]
       ELSE IF ~FieldIsList(pl.a) \/ ~FieldIsList(pl.b)
       THEN [ok |-> FALSE, ev |-> [a |-> <<>>, b |-> <<>>], err |-> Raise("arrays", "", i)]
       ELSE [ok |-> TRUE, ev |-> [a |-> pl.a.v, b |-> pl.b.v], err |-> NoErr]

\* One turn of the generator iter_depth_events for the item at index i.
iter_depth_events(it, i) ==
    LET pl == payload(it)
    IN IF it.shape = "scalar"
       THEN [ok |-> FALSE, ev |-> [a |-> <<>>, b |-> <<>>], err |-> Raise("item", "", i)]
       ELSE IF it.shape = "data_scalar"
       THEN [ok |-> FALSE, ev |-> [a |-> <<>>, b |-> <<>>], err |-> Raise("payload", "", i)]
       ELSE IF ~FieldIsList(pl.a) \/ ~FieldIsList(pl.b)
       THEN [ok |-> FALSE, ev |-> [a |-> <<>>, b |-> <<>>], err |-> Raise("arrays", "", i)]
       ELSE [ok |-> TRUE, ev |-> [a |-> pl.a.v, b |-> pl.b.v], err |-> NoErr]

----------------------------------------------------------------------------
(* Snapshot source *)

\* A snapshot object (or, with is_obj FALSE, a list item that is no object).
SnapObj(asks, bids) == [is_obj |-> TRUE, asks |-> asks, bids |-> bids]
NotAnObject == [is_obj |-> FALSE, asks |-> AbsentField, bids |-> AbsentField]

\* args.snapshot and the JSON loaded from it.  shape: "object" (objs holds the
\* one object), "list" (objs holds the items), "scalar" (neither).
NoSnapshot == [given |-> FALSE, shape |-> "object", objs |-> <<>>]
SnapshotObject(o) == [given |-> TRUE, shape |-> "object", objs |-> <<o>>]
SnapshotList(os) == [given |-> TRUE, shape |-> "list", objs |-> os]
SnapshotScalar == [given |-> TRUE, shape |-> "scalar", objs |-> <<>>]

\* The loop stopped at the first object the generator yields.
last_snapshot_first(s) ==
    LET notobj == {i \in 1..Len(s.objs) : ~s.objs[i].is_obj}
        none == [ok |-> FALSE, last |-> NotAnObject, err |-> NoErr]
    IN IF s.shape = "object" /\ (s.objs[1].asks.t # "absent" \/ s.objs[1].bids.t # "absent")
       THEN [ok |-> TRUE, last |-> s.objs[1], err |-> NoErr]
       ELSE IF s.shape # "list"
       THEN [none EXCEPT !.err = Raise("snapshot", "", -1)]
       ELSE IF notobj # {}
       THEN [none EXCEPT !.err = Raise("snapshot_item", "",
                                       (CHOOSE i \in notobj : \A j \in notobj : i <= j) - 1)]
       ELSE IF s.objs = <<>>
       THEN [none EXCEPT !.err = Raise("no_snapshot", "", -1)]
       ELSE [ok |-> TRUE, last |-> s.objs[1], err |-> NoErr]

\* "for last_snap in iter_snapshots(snap_payload): pass" followed by the test
\* of last_snap: the last object yielded, or the error that ends the run.
last_snapshot(s) ==
    LET notobj == {i \in 1..Len(s.objs) : ~s.objs[i].is_obj}
        none == [ok |-> FALSE, last |-> NotAnObject, err |-> NoErr]
    IN IF s.shape = "object" /\ (s.objs[1].asks.t # "absent" \/ s.objs[1].bids.t # "absent")
       THEN [ok |-> TRUE, last |-> s.objs[1], err |-> NoErr]
       ELSE IF s.shape # "list"
       THEN [none EXCEPT !.err = Raise("snapshot", "", -1)]
       ELSE IF notobj # {}
       THEN [none EXCEPT !.err = Raise("snapshot_item", "",
                                       (CHOOSE i \in notobj : \A j \in notobj : i <= j) - 1)]
       ELSE IF s.objs = <<>>
       THEN [none EXCEPT !.err = Raise("no_snapshot", "", -1)]
       ELSE [ok |-> TRUE, last |-> s.objs[Len(s.objs)], err |-> NoErr]

\* "Build initial book" of main(): the initial book, or the error.
build_initial(s) ==
    IF ~s.given THEN [ok |-> TRUE, book |-> new_empty_book, err |-> NoErr]
    ELSE LET l == last_snapshot(s)
         IN IF ~l.ok THEN [ok |-> FALSE, book |-> new_empty_book, err |-> l.err]
            ELSE book_from_snapshot(l.last)

----------------------------------------------------------------------------
(* Inputs of a run *)

\* Longest update stream of a run.
MaxEvents == 3

Prices == {"9.5", "10.2", "10.20"}

L(rows) == ListField(rows)

SnapshotSources ==
    { NoSnapshot,
      SnapshotObject(SnapObj(L(<< <<"10.2", "2">> >>), L(<< <<"9.5", "2">> >>))),
      SnapshotObject(SnapObj(L(<< <<"10.2", "2">>, <<"10.20", "3">> >>), L(<<>>))),
      SnapshotObject(SnapObj(L(<< <<"10.2", "0">> >>), L(<< <<"9.5", "2">> >>))),
      SnapshotList(<< SnapObj(L(<< <<"10.2", "2">> >>), L(<< <<"9.5", "2">> >>)),
                      SnapObj(L(<< <<"9.5", "2">>, <<"10.2", "3">>, <<"9.5", "3">> >>), AbsentField) >>),
      SnapshotList(<<>>),
      SnapshotObject(SnapObj(L(<< <<"9.5", "abc">> >>), L(<<>>))),
      SnapshotScalar }

\* (args.final_only, args.store_every); --store-every defaults to 1.
Modes == { <<TRUE, 1>>, <<FALSE, 1>>, <<FALSE, 2>>, <<FALSE, -1>> }

UpdateItems ==
    { FlatItem(L(<< <<"10.2", "3">> >>), L(<< <<"9.5", "3">> >>)),
      FlatItem(L(<< <<"10.20", "3">>, <<"10.2", "0">> >>), L(<<>>)),
      FlatItem(L(<<>>), L(<< <<"9.5", "0.0">>, <<"10.2", "2">> >>)),
      FlatItem(L(<< <<"9.5", "2">>, <<"9.5", "0">> >>), L(<< <<"10.2", "3">>, <<"10.2", "2">> >>)),
      FlatItem(L(<< <<"10.2", "0">>, <<"10.2", "2">> >>), L(<< <<"9.5", "0">> >>)),
      BothItem(L(<< <<"9.5", "2">> >>), AbsentField, L(<< <<"10.2", "3">> >>), L(<<>>)),
      FlatItem(L(<< <<"10.2", "2">>, <<"9.5">> >>), L(<< <<"9.5", "2">> >>)),
      FlatItem(L(<< <<"9.5", "3">> >>), L(<< <<"10.2", "3">>, <<"10.2", "-1">> >>)),
      FlatItem(OtherField, L(<<>>)),
      FlatItem(AbsentField, AbsentField),
      ScalarItem,
      DataScalarItem }

----------------------------------------------------------------------------
(* main() *)

Max(x, y) == IF x >= y THEN x ELSE y

\* The copy {"ask": dict(b["ask"]), "bid": dict(b["bid"])}.
copy_book(b) == [ask |-> b.ask, bid |-> b.bid]

\* The stride test on the count of the events before the current one.
stride_hit_before(k, every) == (k - 1) % Max(1, every) = 0

\* "n % max(1, args.store_every) == 0"
stride_hit(k, every) == k % Max(1, every) = 0

Init ==
    /\ pc = "build"
    /\ snapshot \in SnapshotSources
    /\ \E m \in Modes : final_only = m[1] /\ store_every = m[2]
    /\ initial_book = new_empty_book
    /\ book = new_empty_book
    /\ n = 0
    /\ states = <<>>
    /\ item = NoItem
    /\ pre_book = new_empty_book
    /\ events = <<>>
    /\ err = NoErr
    /\ dumped = NotWritten
    /\ revert = NotWritten

\* Lines 236-250: the initial book is built and copied into the working book.
Build ==
    /\ pc = "build"
    /\ build_initial(snapshot).ok
    /\ initial_book' = build_initial(snapshot).book
    /\ book' = copy_book(build_initial(snapshot).book)
    /\ pre_book' = copy_book(build_initial(snapshot).book)
    /\ pc' = "loop"
    /\ UNCHANGED <<snapshot, final_only, store_every, n, states, item, events, err, dumped, revert>>

\* The same lines when the snapshot source is rejected: the exception leaves main().
BuildFails ==
    /\ pc = "build"
    /\ ~build_initial(snapshot).ok
    /\ err' = build_initial(snapshot).err
    /\ pc' = "error"
    /\ UNCHANGED <<snapshot, final_only, store_every, initial_book, book, n, states,
                   item, pre_book, events, dumped, revert>>

\* Update with the projection taken before apply_event instead of after it.
UpdateStoresBefore(it) ==
    LET r == iter_depth_events(it, Len(events))
        ap == apply_event(book, r.ev)
    IN /\ pc = "loop"
       /\ Len(events) < MaxEvents
       /\ r.ok
       /\ ap.ok
       /\ item' = it
       /\ pre_book' = book
       /\ book' = ap.book
       /\ events' = Append(events, r.ev)
       /\ n' = IF final_only THEN n ELSE n + 1
       /\ states' = IF ~final_only /\ stride_hit(n + 1, store_every)
                    THEN Append(states, book_to_levels(book))
                    ELSE states
       /\ UNCHANGED <<pc, snapshot, final_only, store_every, initial_book, err, dumped, revert>>

\* Update on a working book that is the initial book itself ("book =
\* initial_book" without the dict(...) copies): the initial book sees every change.
UpdateSharingInitial(it) ==
    LET r == iter_depth_events(it, Len(events))
        ap == apply_event(book, r.ev)
    IN /\ pc = "loop"
       /\ Len(events) < MaxEvents
       /\ r.ok
       /\ ap.ok
       /\ item' = it
       /\ pre_book' = book
       /\ book' = ap.book
       /\ initial_book' = ap.book
       /\ events' = Append(events, r.ev)
       /\ n' = IF final_only THEN n ELSE n + 1
       /\ states' = IF ~final_only /\ stride_hit(n + 1, store_every)
                    THEN Append(states, book_to_levels(ap.book))
                    ELSE states
       /\ UNCHANGED <<pc, snapshot, final_only, store_every, err, dumped, revert>>

\* One turn of either loop (259-260 or 264-268) in which the generator yields
\* and apply_event returns.
Update(it) ==
    LET r == iter_depth_events(it, Len(events))
        ap == apply_event(book, r.ev)
    IN /\ pc = "loop"
       /\ Len(events) < MaxEvents
       /\ r.ok
       /\ ap.ok
       /\ item' = it
       /\ pre_book' = book
       /\ book' = ap.book
       /\ events' = Append(events, r.ev)
       /\ n' = IF final_only THEN n ELSE n + 1
       /\ states' = IF ~final_only /\ stride_hit(n + 1, store_every)
                    THEN Append(states, book_to_levels(ap.book))
                    ELSE states
       /\ UNCHANGED <<pc, snapshot, final_only, store_every, initial_book, err, dumped, revert>>

\* A turn in which the generator raises for the item: nothing of it is applied.
UpdateRejected(it) ==
    LET r == iter_depth_events(it, Len(events))
    IN /\ pc = "loop"
       /\ Len(events) < MaxEvents
       /\ ~r.ok
       /\ item' = it
       /\ pre_book' = book
       /\ err' = r.err
       /\ pc' = "error"
       /\ UNCHANGED <<snapshot, final_only, store_every, initial_book, book, n, states,
                      events, dumped, revert>>

\* UpdateFails with the exception caught and the loop continued.
UpdateFailsSwallowed(it) ==
    LET r == iter_depth_events(it, Len(events))
        ap == apply_event(book, r.ev)
    IN /\ pc = "loop"
       /\ Len(events) < MaxEvents
       /\ r.ok
       /\ ~ap.ok
       /\ item' = it
       /\ pre_book' = book
       /\ book' = ap.book
       /\ n' = IF final_only THEN n ELSE n + 1
       /\ err' = ap.err
       /\ events' = Append(events, r.ev)
       /\ UNCHANGED <<pc, snapshot, final_only, store_every, initial_book, states,
                      dumped, revert>>

\* A turn in which apply_event raises: the book keeps what was applied before
\* the exception, n was already incremented, nothing is stored.
UpdateFails(it) ==
    LET r == iter_depth_events(it, Len(events))
        ap == apply_event(book, r.ev)
    IN /\ pc = "loop"
       /\ Len(events) < MaxEvents
       /\ r.ok
       /\ ~ap.ok
       /\ item' = it
       /\ pre_book' = book
       /\ book' = ap.book
       /\ n' = IF final_only THEN n ELSE n + 1
       /\ err' = ap.err
       /\ pc' = "error"
       /\ UNCHANGED <<snapshot, final_only, store_every, initial_book, states,
                      events, dumped, revert>>

\* Finish whose final-only projection shows the initial book.
FinishStoresInitial(dump, emit_revert) ==
    LET stored == IF final_only THEN Append(states, book_to_levels(initial_book)) ELSE states
    IN /\ pc = "loop"
       /\ states' = stored
       /\ dumped' = IF dump THEN Written(stored) ELSE NotWritten
       /\ revert' = IF emit_revert
                    THEN Written(generate_revert_update(copy_book(book), copy_book(initial_book), ZeroFmt))
                    ELSE NotWritten
       /\ pc' = "done"
       /\ UNCHANGED <<snapshot, final_only, store_every, initial_book, book, n,
                      item, pre_book, events, err>>

\* The updates list is exhausted: the final-only projection (261), the dump
\* (282-283) and the revert (286-294), the last two as the options say.
Finish(dump, emit_revert) ==
    LET stored == IF final_only THEN Append(states, book_to_levels(book)) ELSE states
    IN /\ pc = "loop"
       /\ states' = stored
       /\ dumped' = IF dump THEN Written(stored) ELSE NotWritten
       /\ revert' = IF emit_revert
                    THEN Written(generate_revert_update(copy_book(book), copy_book(initial_book), ZeroFmt))
                    ELSE NotWritten
       /\ pc' = "done"
       /\ UNCHANGED <<snapshot, final_only, store_every, initial_book, book, n,
                      item, pre_book, events, err>>

Next ==
    \/ Build
    \/ BuildFails
    \/ \E it \in UpdateItems : Update(it)
    \/ \E it \in UpdateItems : UpdateRejected(it)
    \/ \E it \in UpdateItems : UpdateFails(it)
    \/ \E dump \in BOOLEAN, emit_revert \in BOOLEAN : Finish(dump, emit_revert)

Spec == Init /\ [][Next]_vars

----------------------------------------------------------------------------
(* apply_event on its own: one book, one event, applied and applied again *)

\* Most levels of a book drawn as the argument of apply_event (both sides together).
MaxBook == 2

\* Most rows of an event drawn as the argument of apply_event (both lists together).
MaxLevels == 2

SeqsUpTo(S, k) == UNION {[1..m -> S] : m \in 0..k}

BookRows == {<<p, q>> : p \in Prices, q \in {"2"}}

EventRows == {<<p, q>> : p \in Prices, q \in {"0", ZeroFmt, "3"}} \cup {<<"9.5">>, <<"9.5", "-1">>}

\* The dicts a side can be: no price text twice.
Dicts(k) == {d \in SeqsUpTo(BookRows, k) : \A i, j \in 1..Len(d) : d[i][1] = d[j][1] => i = j}

\* The books of at most MaxBook levels.
ApplyBooks ==
    UNION {{[ask |-> x, bid |-> y] : y \in Dicts(MaxBook - Len(x))} : x \in Dicts(MaxBook)}

\* The events of at most MaxLevels rows.
ApplyEvents ==
    UNION {{[a |-> x, b |-> y] : y \in SeqsUpTo(EventRows, MaxLevels - Len(x))} :
              x \in SeqsUpTo(EventRows, MaxLevels)}

InitApply ==
    /\ pc = "call"
    /\ book \in ApplyBooks
    /\ \E e \in ApplyEvents : item = FlatItem(L(e.a), L(e.b))
    /\ pre_book = book
    /\ initial_book = book
    /\ snapshot = NoSnapshot
    /\ final_only = TRUE
    /\ store_every = 1
    /\ n = 0
    /\ states = <<>>
    /\ events = <<>>
    /\ err = NoErr
    /\ dumped = NotWritten
    /\ revert = NotWritten

\* apply_event(book, event) is called on the drawn book.
Apply ==
    LET ev == iter_depth_events(item, 0).ev
        ap == apply_event(book, ev)
    IN /\ pc = "call"
       /\ pre_book' = book
       /\ book' = ap.book
       /\ err' = ap.err
       /\ events' = IF ap.ok THEN <<ev>> ELSE <<>>
       /\ pc' = IF ap.ok THEN "applied" ELSE "failed"
       /\ UNCHANGED <<snapshot, final_only, store_every, initial_book, n, states,
                      item, dumped, revert>>

\* The same event is applied a second time to the book the first call left.
ApplyAgain ==
    LET ev == iter_depth_events(item, 0).ev
        ap == apply_event(book, ev)
    IN /\ pc = "applied"
       /\ pre_book' = book
       /\ book' = ap.book
       /\ err' = ap.err
       /\ events' = Append(events, ev)
       /\ pc' = "twice"
       /\ UNCHANGED <<snapshot, final_only, store_every, initial_book, n, states,
                      item, dumped, revert>>

NextApply == Apply \/ ApplyAgain

SpecApply == InitApply /\ [][NextApply]_vars

----------------------------------------------------------------------------
(* Vocabulary of the properties *)

Sides == {"ask", "bid"}

SideOf(b, side) == IF side = "ask" THEN b.ask ELSE b.bid

\* The rows of an event in application order: the bid list, then the ask list.
TaggedRows(ev) ==
    [i \in 1..Len(ev.b) |-> [side |-> "bid", row |-> ev.b[i]]]
        \o [i \in 1..Len(ev.a) |-> [side |-> "ask", row |-> ev.a[i]]]

RECURSIVE Flatten(_)
Flatten(evs) == IF evs = <<>> THEN <<>> ELSE TaggedRows(evs[1]) \o Flatten(Tail(evs))

\* upsert(side, price, quantity) of one tagged row.
UpsertEntry(b, e) ==
    IF e.side = "bid"
    THEN [b EXCEPT !.bid = Upsert(b.bid, e.row[1], e.row[2])]
    ELSE [b EXCEPT !.ask = Upsert(b.ask, e.row[1], e.row[2])]

RECURSIVE FoldEntries(_, _)
FoldEntries(b, es) ==
    IF es = <<>> THEN b ELSE FoldEntries(UpsertEntry(b, es[1]), Tail(es))

\* The event the apply harness drew.
TheEvent == iter_depth_events(item, 0).ev

\* Position in application order of the first malformed row of an event, 0 if none.
FirstBadEntry(ev) ==
    LET es == TaggedRows(ev)
        bad == {i \in 1..Len(es) : RowError(es[i].row) # "none"}
    IN IF bad = {} THEN 0 ELSE CHOOSE i \in bad : \A j \in bad : i <= j

\* The mapping a side denotes, whatever the insertion order.
SameMapping(d, e) ==
    /\ Keys(d) = Keys(e)
    /\ \A p \in Keys(d) : Get(d, p) = Get(e, p)

----------------------------------------------------------------------------
(* C1 *)

\* The book that results from applying an emitted revert object to b.
AfterRevert(b, rev) == apply_event(b, iter_depth_events(rev, 0).ev).book

\* C1: applying generate_revert_update(current = the final book, target = the
\* initial book) to the final book with apply_event yields a book whose
\* projection equals the projection of the initial book, entry for entry and
\* text for text.
C1_RoundTrip ==
    (pc = "done" /\ revert.written)
        => book_to_levels(AfterRevert(book, revert.value)) = book_to_levels(initial_book)

----------------------------------------------------------------------------
(* C2 *)

\* C2: in every reachable book state no price on either side is present with a
\* quantity that is zero or negative.
C2_NoNonPositiveQuantity ==
    \A b \in {initial_book, book} : \A side \in Sides :
        \A i \in 1..Len(SideOf(b, side)) : DecValue(SideOf(b, side)[i][2]) > 0

----------------------------------------------------------------------------
(* C3 *)

\* C3: in every reachable book no side holds two entries whose price texts
\* denote the same decimal value.
C3_PriceKeysUnique ==
    \A b \in {initial_book, book} : \A side \in Sides :
        \A i, j \in 1..Len(SideOf(b, side)) :
            DecEq(SideOf(b, side)[i][1], SideOf(b, side)[j][1]) => i = j

----------------------------------------------------------------------------
(* C4 *)

\* The last row for (side, price text) among tagged rows, 0 if there is none.
LastRowFor(es, side, p) ==
    LET at == {i \in 1..Len(es) : es[i].side = side /\ es[i].row[1] = p}
    IN IF at = {} THEN 0 ELSE CHOOSE i \in at : \A j \in at : j <= i

----------------------------------------------------------------------------
(* C5 *)

\* The event consists of exactly one row, which is well formed.
SingleRow == Len(TaggedRows(TheEvent)) = 1 /\ FirstBadEntry(TheEvent) = 0

\* The items of a side other than the one stored under price text p, in order.
Others(d, p) == SelectSeq(d, LAMBDA it : it[1] # p)

----------------------------------------------------------------------------
(* C6 *)

\* C6: applying the same valid event twice in a row succeeds and yields the
\* same book (each side the same mapping from price text to quantity text) as
\* applying it once.
C6_Idempotent ==
    pc = "twice" =>
        /\ err = NoErr
        /\ SameMapping(book.ask, pre_book.ask)
        /\ SameMapping(book.bid, pre_book.bid)

\* A non-zero update of a level was applied twice to a book it changed.
C6_Witness ==
    /\ pc = "twice"
    /\ book # initial_book
    /\ \E i \in 1..Len(TheEvent.b) :
          /\ DecValue(TheEvent.b[i][2]) > 0
          /\ HasKey(initial_book.bid, TheEvent.b[i][1])

----------------------------------------------------------------------------
(* C7 *)

\* The rows in application order that precede the first malformed one.
RowsBeforeFailure(ev) == SubSeq(TaggedRows(ev), 1, FirstBadEntry(ev) - 1)

\* C7 as claimed: when apply_event fails on a malformed row, every valid row
\* that precedes it in application order (bid rows, then ask rows) has been
\* applied to the book and stays applied.
C7_PrecedingRowsApplied ==
    pc = "failed" => book = FoldEntries(pre_book, RowsBeforeFailure(TheEvent))

\* C7 amended: when apply_event fails on a malformed row of the ask list, every
\* row of the bid list has been applied and stays applied and no row of the ask
\* list has been applied; when it fails on a malformed row of the bid list, no
\* row has been applied.  Nothing is rolled back.
C7_PrecedingListApplied ==
    pc = "failed" =>
        IF err.label = "asks"
        THEN book = FoldEntries(pre_book, SelectSeq(TaggedRows(TheEvent), LAMBDA e : e.side = "bid"))
        ELSE book = pre_book

\* The ask list was rejected after the bid list had changed the book.
C7_Witness ==
    /\ pc = "failed"
    /\ err.label = "asks"
    /\ book.bid # pre_book.bid
    /\ book.ask = pre_book.ask

----------------------------------------------------------------------------
(* C8 *)

\* The list of an event that apply_event rejects: the bid list if it holds a
\* malformed row, else the ask list.
RejectedLabel(ev) ==
    IF \E i \in 1..Len(ev.b) : RowError(ev.b[i]) # "none" THEN "bids" ELSE "asks"

RejectedList(ev) == IF RejectedLabel(ev) = "bids" THEN ev.b ELSE ev.a

NamesPrice(rows, p) == \E i \in 1..Len(rows) : rows[i][1] = p

\* C8: a row that is not a two-element pair makes apply_event fail; when it is
\* the row apply_event stops at, the error names its list and its index; and
\* the failure leaves every level in place that the book held before and that
\* the failing event does not name.
C8_NonPairRejected ==
    pc # "call" =>
        /\ (\E e \in 1..Len(TaggedRows(TheEvent)) : Len(TaggedRows(TheEvent)[e].row) # 2)
              => pc = "failed"
        /\ pc = "failed" =>
              LET rows == RejectedList(TheEvent)
                  k == CHOOSE i \in 1..Len(rows) :
                          /\ RowError(rows[i]) # "none"
                          /\ \A j \in 1..(i - 1) : RowError(rows[j]) = "none"
              IN /\ Len(rows[k]) # 2 =>
                        err = Raise("pair", RejectedLabel(TheEvent), k - 1)
                 /\ \A side \in Sides : \A i \in 1..Len(SideOf(pre_book, side)) :
                        LET lv == SideOf(pre_book, side)[i]
                            named == NamesPrice(IF side = "ask" THEN TheEvent.a ELSE TheEvent.b, lv[1])
                        IN ~named =>
                              /\ HasKey(SideOf(book, side), lv[1])
                              /\ Get(SideOf(book, side), lv[1]) = lv[2]

\* A row of one element in the ask list stopped apply_event after the bid list
\* had been applied, and a level the event does not name is kept.
C8_Witness ==
    /\ pc = "failed"
    /\ err = Raise("pair", "asks", 0)
    /\ book # pre_book
    /\ \E i \in 1..Len(pre_book.bid) :
          /\ ~NamesPrice(TheEvent.b, pre_book.bid[i][1])
          /\ pre_book.bid[i] \in {book.bid[j] : j \in 1..Len(book.bid)}

----------------------------------------------------------------------------
(* C9 *)

\* C9: a validation error stops the run: an error raised is never swallowed.  When the item at position i of the
\* update stream is rejected, exactly the i items before it have been applied,
\* the projections stored are those captured for them, neither the stored
\* states nor a revert event is emitted, and nothing happens afterwards: no
\* later event is applied and no further projection is captured.
C9_ErrorStopsRun ==
    /\ [](err # NoErr => pc = "error")
    /\ [](pc = "error" =>
            /\ err # NoErr
            /\ dumped = NotWritten
            /\ revert = NotWritten
            /\ err.kind \in {"item", "payload", "arrays"} => err.index = Len(events)
            /\ item # NoItem =>
                  /\ book = apply_event(FoldEntries(copy_book(initial_book), Flatten(events)),
                                        iter_depth_events(item, 0).ev).book
                  /\ Len(states) = IF final_only THEN 0
                                   ELSE Len(events) \div Max(1, store_every))
    /\ [][pc = "error" => UNCHANGED vars]_vars

\* The run stopped at the third item after two events were applied and stored.
C9_Witness ==
    /\ pc = "error"
    /\ Len(events) = 2
    /\ Len(states) = 2
    /\ item # NoItem

----------------------------------------------------------------------------
(* C10 *)

\* C10: a run over N valid events stores exactly N projections with stride 1,
\* floor(N/k) with stride k >= 1, and exactly one in final-only mode for every
\* N; for N = 0 that one is the projection of the unmodified initial book.
C10_StoredCount ==
    pc = "done" =>
        /\ final_only =>
              /\ Len(states) = 1
              /\ events = <<>> => states[1] = book_to_levels(initial_book)
        /\ (~final_only /\ store_every >= 1) =>
              Len(states) = Len(events) \div store_every

\* Three events with stride 2 stored one projection.
C10_Witness ==
    /\ pc = "done"
    /\ ~final_only
    /\ store_every = 2
    /\ Len(events) = 3
    /\ Len(states) = 1

----------------------------------------------------------------------------
(* C11 *)

\* The stride in effect: args.store_every, or 1 when it is not positive.
EffectiveStride == IF store_every >= 1 THEN store_every ELSE 1

\* The working book as it was right after the first k events.
BookAfter(k) == FoldEntries(copy_book(initial_book), Flatten(SubSeq(events, 1, k)))

\* C11: in stride mode the j-th stored projection is the projection of the
\* working book right after the (j*s)-th event, s being the stride (1 when
\* store_every <= 0); projections are stored in event order and at no other
\* point.
C11_StoredAtStride ==
    (~final_only /\ pc \in {"loop", "done", "error"}) =>
        /\ Len(states) = Len(events) \div EffectiveStride
        /\ \A j \in 1..Len(states) :
              states[j] = book_to_levels(BookAfter(j * EffectiveStride))

\* With stride 2 the one projection stored over three events shows the book
\* after the second event, which the first and the third event both differ from.
C11_Witness ==
    /\ pc = "loop"
    /\ ~final_only
    /\ store_every = 2
    /\ Len(events) = 3
    /\ Len(states) = 1
    /\ states[1] # book_to_levels(book)
    /\ states[1] # book_to_levels(BookAfter(1))

----------------------------------------------------------------------------
(* C12 *)

\* C12: the initial book is never mutated by a run: whatever events were
\* applied to the working copy, and whether the run completed or stopped on
\* an error, the initial book is what the build of the initial book produced.
C12_InitialBookKept ==
    (pc \in {"loop", "done", "error"} /\ build_initial(snapshot).ok) =>
        initial_book = build_initial(snapshot).book

\* A run seeded from a snapshot stopped on an error after events had changed
\* the working book.
C12_Witness ==
    /\ pc = "error"
    /\ snapshot.given
    /\ Len(events) >= 1
    /\ book.ask # initial_book.ask
    /\ book.bid # initial_book.bid

----------------------------------------------------------------------------
(* generate_revert_update on its own: a current and a target book, the call,
   and a later change of either book *)

CurrentRows == {<<p, q>> : p \in Prices, q \in {"2", "3"}}

\* The books of at most MaxBook levels whose sides are dicts over the rows.
BooksOver(rows) ==
    LET dicts(k) == {d \in SeqsUpTo(rows, k) : \A i, j \in 1..Len(d) : d[i][1] = d[j][1] => i = j}
    IN UNION {{[ask |-> x, bid |-> y] : y \in dicts(MaxBook - Len(x))} : x \in dicts(MaxBook)}

\* book is the current book and initial_book the target book, as in the call
\* generate_revert_update(current_book=book, target_book=initial_book) of main().
InitRevert ==
    /\ pc = "diff"
    /\ book \in BooksOver(CurrentRows)
    /\ initial_book \in BooksOver(BookRows)
    /\ pre_book = book
    /\ snapshot = NoSnapshot
    /\ final_only = TRUE
    /\ store_every = 1
    /\ n = 0
    /\ states = <<>>
    /\ events = <<>>
    /\ item = NoItem
    /\ err = NoErr
    /\ dumped = NotWritten
    /\ revert = NotWritten

\* Generate that removes from the current book the levels it emits a removal for.
GenerateConsuming ==
    /\ pc = "diff"
    /\ states' = <<book_to_levels(book)>>
    /\ revert' = Written(generate_revert_update(book, initial_book, ZeroFmt))
    /\ pre_book' = book
    /\ book' = [ask |-> SelectSeq(book.ask, LAMBDA it : HasKey(initial_book.ask, it[1])),
                bid |-> SelectSeq(book.bid, LAMBDA it : HasKey(initial_book.bid, it[1]))]
    /\ pc' = "diffed"
    /\ UNCHANGED <<snapshot, final_only, store_every, initial_book, n, events,
                   item, err, dumped>>

\* The current book is projected (as states.append(book_to_levels(book)) does)
\* and the revert event is generated from it and the target book.
Generate ==
    /\ pc = "diff"
    /\ states' = <<book_to_levels(book)>>
    /\ revert' = Written(generate_revert_update(book, initial_book, ZeroFmt))
    /\ pre_book' = book
    /\ pc' = "diffed"
    /\ UNCHANGED <<snapshot, final_only, store_every, initial_book, book, n, events,
                   item, err, dumped>>

\* The event that later changes one of the books.
LaterEvent == [a |-> <<<<"9.5", "0">>, <<"10.2", "3">>>>, b |-> <<<<"9.5", "0">>, <<"10.2", "3">>>>]

\* Mutate on a projection and a revert event that hold the book's own
\* containers: both show the change.
MutateShared(which) ==
    LET cur == IF which = "current" THEN apply_event(book, LaterEvent).book ELSE book
        tgt == IF which = "target" THEN apply_event(initial_book, LaterEvent).book ELSE initial_book
    IN /\ pc = "diffed"
       /\ book' = cur
       /\ initial_book' = tgt
       /\ states' = <<book_to_levels(cur)>>
       /\ revert' = Written(generate_revert_update(cur, tgt, ZeroFmt))
       /\ events' = <<LaterEvent>>
       /\ pc' = "mutated"
       /\ UNCHANGED <<snapshot, final_only, store_every, n, item, pre_book, err, dumped>>

\* A later event is applied in place to the current or to the target book.
\* The projection and the revert event are lists built by book_to_levels and
\* side_diff, of pairs built there, so the change does not reach them.
Mutate(which) ==
    LET cur == IF which = "current" THEN apply_event(book, LaterEvent).book ELSE book
        tgt == IF which = "target" THEN apply_event(initial_book, LaterEvent).book ELSE initial_book
    IN /\ pc = "diffed"
       /\ book' = cur
       /\ initial_book' = tgt
       /\ events' = <<LaterEvent>>
       /\ pc' = "mutated"
       /\ UNCHANGED <<snapshot, final_only, store_every, n, states, item, pre_book,
                      err, dumped, revert>>

\* The generated event is applied to the current book with apply_event, as a
\* consumer of the emitted revert does.
ApplyRevert ==
    LET ap == apply_event(book, iter_depth_events(revert.value, 0).ev)
    IN /\ pc = "diffed"
       /\ book' = ap.book
       /\ err' = ap.err
       /\ events' = <<iter_depth_events(revert.value, 0).ev>>
       /\ pc' = "reverted"
       /\ UNCHANGED <<snapshot, final_only, store_every, initial_book, n, states, item,
                      pre_book, dumped, revert>>

\* The same event is applied once more to the book the first application left.
ApplyRevertAgain ==
    LET ap == apply_event(book, iter_depth_events(revert.value, 0).ev)
    IN /\ pc = "reverted"
       /\ pre_book' = book
       /\ book' = ap.book
       /\ err' = ap.err
       /\ events' = Append(events, iter_depth_events(revert.value, 0).ev)
       /\ pc' = "reverted_twice"
       /\ UNCHANGED <<snapshot, final_only, store_every, initial_book, n, states, item,
                      dumped, revert>>

NextRevert ==
    \/ Generate
    \/ \E which \in {"current", "target"} : Mutate(which)
    \/ ApplyRevert
    \/ ApplyRevertAgain

SpecRevert == InitRevert /\ [][NextRevert]_vars

\* The two lists of the generated revert event.
RevertSide(side) == IF side = "ask" THEN revert.value.data.a.v ELSE revert.value.data.b.v

----------------------------------------------------------------------------
(* C13 *)

\* C13: a stored projection and a generated revert event do not alias the
\* book: an event applied later to the current or to the target book leaves
\* both exactly as they were produced.
C13_NoAliasing ==
    [][pc = "diffed" => (states' = states /\ revert' = revert)]_vars

\* A later event changed the current book, whose stored projection and revert
\* event still show the book of the time of the call.
C13_Witness ==
    /\ pc = "mutated"
    /\ book # pre_book
    /\ states = <<book_to_levels(pre_book)>>
    /\ states # <<book_to_levels(book)>>
    /\ revert = Written(generate_revert_update(pre_book, initial_book, ZeroFmt))
    /\ revert # Written(generate_revert_update(book, initial_book, ZeroFmt))

----------------------------------------------------------------------------
(* C14 *)

\* How many entries of a list name the price text p.
CountPrice(rows, p) == Cardinality({i \in 1..Len(rows) : rows[i][1] = p})

\* The entry side_diff owes for the price text p, <<>> when it owes none.
OwedEntry(cur, tgt, p) ==
    IF ~HasKey(tgt, p) THEN <<p, ZeroFmt>>
    ELSE IF ~HasKey(cur, p) THEN <<p, Get(tgt, p)>>
    ELSE IF Get(cur, p) # Get(tgt, p) THEN <<p, Get(tgt, p)>>
    ELSE <<>>

\* C14: for each side the revert list holds exactly one entry per price at
\* which the two books differ and none for any other price: [p, zero
\* sentinel] for a price only in current, [p, target quantity] for a price
\* only in target or held with another quantity; nothing for a price held
\* with the same quantity by both; and no price appears twice in the list,
\* prices being equal when their decimal values are.
C14_OneEntryPerPrice ==
    pc = "diffed" =>
        \A side \in Sides :
            LET cur == SideOf(book, side)
                tgt == SideOf(initial_book, side)
                out == RevertSide(side)
            IN /\ \A i \in 1..Len(out) : out[i][1] \in Keys(cur) \cup Keys(tgt)
               /\ \A p \in Keys(cur) \cup Keys(tgt) :
                     IF OwedEntry(cur, tgt, p) = <<>>
                     THEN CountPrice(out, p) = 0
                     ELSE /\ CountPrice(out, p) = 1
                          /\ \E i \in 1..Len(out) : out[i] = OwedEntry(cur, tgt, p)
               /\ \A i, j \in 1..Len(out) : DecEq(out[i][1], out[j][1]) => i = j

----------------------------------------------------------------------------
(* C15 *)

\* C15: generate_revert_update(B, B) is empty on both sides.
C15_SameBookEmpty ==
    (pc = "diffed" /\ book = initial_book) =>
        (RevertSide("ask") = <<>> /\ RevertSide("bid") = <<>>)

\* The revert of a book with a level on each side against itself.
C15_Witness ==
    /\ pc = "diffed"
    /\ book = initial_book
    /\ book.ask # <<>>
    /\ book.bid # <<>>
    /\ revert.written

----------------------------------------------------------------------------
(* C16 *)

\* C16: generate_revert_update only reads its two books: the call leaves the
\* current and the target book as they were.
C16_ReadOnly ==
    [][pc = "diff" => (book' = book /\ initial_book' = initial_book)]_vars

\* A call that emitted removals and additions, after which both books are
\* what they were.
C16_Witness ==
    /\ pc = "diffed"
    /\ book = pre_book
    /\ \E p \in Keys(book.ask) : <<p, ZeroFmt>> = RevertSide("ask")[1]
    /\ Keys(initial_book.bid) \ Keys(book.bid) # {}

----------------------------------------------------------------------------
(* C17 *)

\* C17: the ask list of the revert event is in ascending and its bid list in
\* descending order of the decimal value of the price.
C17_RevertSorted ==
    pc = "diffed" =>
        /\ \A i, j \in 1..Len(RevertSide("ask")) :
              i < j => DecValue(RevertSide("ask")[i][1]) <= DecValue(RevertSide("ask")[j][1])
        /\ \A i, j \in 1..Len(RevertSide("bid")) :
              i < j => DecValue(RevertSide("bid")[i][1]) >= DecValue(RevertSide("bid")[j][1])

\* Both lists hold two prices of different value that the loops of side_diff
\* found in the other order.
C17_Witness ==
    /\ pc = "diffed"
    /\ Len(RevertSide("ask")) = 2
    /\ Len(RevertSide("bid")) = 2
    /\ DecValue(RevertSide("ask")[1][1]) < DecValue(RevertSide("ask")[2][1])
    /\ DecValue(RevertSide("bid")[1][1]) > DecValue(RevertSide("bid")[2][1])
    /\ RevertSide("ask") # RemovalsAndChanges(book.ask, initial_book.ask, ZeroFmt)
                               \o Additions(book.ask, initial_book.ask)
    /\ RevertSide("bid") # RemovalsAndChanges(book.bid, initial_book.bid, ZeroFmt)
                               \o Additions(book.bid, initial_book.bid)

----------------------------------------------------------------------------
(* parse_levels and book_from_snapshot on their own: one snapshot object *)

\* Most levels of a drawn snapshot (both lists together).
MaxSnap == 3

\* Well-formed levels, a zero quantity among them, and one level for each way
\* parse_levels can fail.
SnapRows ==
    {<<p, q>> : p \in Prices, q \in {"0", "2"}}
        \cup {<<"9.5">>, <<"9.5", "<number 5>">>, <<"abc", "2">>, <<"9.5", "-1">>,
              <<"NaN", "2">>, <<"9.5", "NaN">>}

\* A snapshot object of at most MaxSnap levels.
InitSnapshot ==
    /\ pc = "snap"
    /\ \E asks \in SeqsUpTo(SnapRows, MaxSnap) :
          \E bids \in SeqsUpTo(SnapRows, MaxSnap - Len(asks)) :
              snapshot = SnapshotObject(SnapObj(L(asks), L(bids)))
    /\ book = new_empty_book
    /\ initial_book = new_empty_book
    /\ pre_book = new_empty_book
    /\ final_only = TRUE
    /\ store_every = 1
    /\ n = 0
    /\ states = <<>>
    /\ events = <<>>
    /\ item = NoItem
    /\ err = NoErr
    /\ dumped = NotWritten
    /\ revert = NotWritten

\* The two level lists of the drawn snapshot object.
SnapAsks == snapshot.objs[1].asks.v
SnapBids == snapshot.objs[1].bids.v

\* parse_levels(snap.get("asks", []), "asks") alone.  What it returns is kept
\* as the ask list of the one element of events.
ParseLevels ==
    LET r == parse_levels(SnapAsks, "asks")
    IN /\ pc = "snap"
       /\ events' = IF r.ok THEN <<[a |-> r.out, b |-> <<>>]>> ELSE <<>>
       /\ err' = r.err
       /\ pc' = IF r.ok THEN "parsed" ELSE "parse_failed"
       /\ UNCHANGED <<snapshot, final_only, store_every, initial_book, book, n, states,
                      item, pre_book, dumped, revert>>

\* book_from_snapshot(snap) followed by book_to_levels of the book it built.
FromSnapshot ==
    LET r == book_from_snapshot(snapshot.objs[1])
        raises == sort_raises(r.book.ask) \/ sort_raises(r.book.bid)
    IN /\ pc = "snap"
       /\ initial_book' = r.book
       /\ book' = r.book
       /\ states' = IF r.ok /\ ~raises THEN <<book_to_levels(r.book)>> ELSE <<>>
       /\ err' = IF r.ok /\ raises THEN Raise("invalid_operation", "", -1) ELSE r.err
       /\ pc' = IF ~r.ok THEN "rejected" ELSE IF raises THEN "unsortable" ELSE "built"
       /\ UNCHANGED <<snapshot, final_only, store_every, n, events, item, pre_book,
                      dumped, revert>>

NextSnapshot == ParseLevels \/ FromSnapshot

SpecSnapshot == InitSnapshot /\ [][NextSnapshot]_vars

\* A level as the specification has it valid: a pair of texts that denote
\* decimal numbers, the quantity not negative.
ValidLevel(row) ==
    /\ Len(row) = 2
    /\ row[1] \notin NonText /\ row[2] \notin NonText
    /\ Decimal(row[1]).valid /\ ~Decimal(row[1]).nan
    /\ Decimal(row[2]).valid /\ ~Decimal(row[2]).nan
    /\ DecValue(row[2]) >= 0

ValidSnapshot ==
    /\ \A i \in 1..Len(SnapAsks) : ValidLevel(SnapAsks[i])
    /\ \A i \in 1..Len(SnapBids) : ValidLevel(SnapBids[i])

\* The list of one side of the drawn snapshot.
SnapSide(side) == IF side = "ask" THEN SnapAsks ELSE SnapBids

\* The list of one side of the stored projection.
ProjectedSide(side) == IF side = "ask" THEN states[1].asks ELSE states[1].bids

CountRow(rows, r) == Cardinality({i \in 1..Len(rows) : rows[i] = r})

SortedByValue(rows, side) ==
    \A i, j \in 1..Len(rows) :
        i < j => IF side = "ask" THEN DecValue(rows[i][1]) <= DecValue(rows[j][1])
                                 ELSE DecValue(rows[i][1]) >= DecValue(rows[j][1])

----------------------------------------------------------------------------
(* C18 *)

\* C18 as stated: for every valid snapshot the projection of the book built
\* from it lists exactly the levels of the snapshot by side, each as often as
\* the snapshot has it (none lost, none duplicated), asks ascending and bids
\* descending by the decimal value of the price, the texts as received.
C18_AllLevelsListed ==
    (pc = "built" /\ ValidSnapshot) =>
        \A side \in Sides :
            /\ Len(ProjectedSide(side)) = Len(SnapSide(side))
            /\ \A i \in 1..Len(SnapSide(side)) :
                  CountRow(ProjectedSide(side), SnapSide(side)[i])
                      = CountRow(SnapSide(side), SnapSide(side)[i])
            /\ SortedByValue(ProjectedSide(side), side)

\* The last level of a list that carries the price text p.
LastWithText(rows, p) ==
    rows[CHOOSE i \in 1..Len(rows) :
            rows[i][1] = p /\ \A j \in 1..Len(rows) : rows[j][1] = p => j <= i]

\* C18, amended: for every valid snapshot the projection lists by side the
\* levels of the snapshot with their texts as received, each once, except
\* that of the levels of a side that carry the same price text only the last
\* one is listed; asks ascending and bids descending by the decimal value of
\* the price.
C18_LastLevelsListed ==
    (pc = "built" /\ ValidSnapshot) =>
        \A side \in Sides :
            LET rcv == SnapSide(side)
                out == ProjectedSide(side)
            IN /\ \A i \in 1..Len(out) : \E j \in 1..Len(rcv) : out[i][1] = rcv[j][1]
               /\ \A j \in 1..Len(rcv) :
                     /\ CountPrice(out, rcv[j][1]) = 1
                     /\ CountRow(out, LastWithText(rcv, rcv[j][1])) = 1
               /\ SortedByValue(out, side)

\* Asks received as 10.2, 9.5, 10.2: the projection lists 9.5 before 10.2 and
\* 10.2 with the quantity received last, a zero.
C18_Witness ==
    /\ pc = "built"
    /\ SnapAsks = <<<<"10.2", "2">>, <<"9.5", "2">>, <<"10.2", "0">>>>
    /\ states = <<[asks |-> <<<<"9.5", "2">>, <<"10.2", "0">>>>, bids |-> <<>>]>>

----------------------------------------------------------------------------
(* C19 *)

\* The quantity of the last level of a list whose price equals p in value.
LastQuantityAt(rows, p) ==
    rows[CHOOSE i \in 1..Len(rows) :
            DecEq(rows[i][1], p) /\ \A j \in 1..Len(rows) : DecEq(rows[j][1], p) => j <= i][2]

\* C19: when a price repeats within one side of a snapshot, the book built
\* from it keeps a single level for that price, whose quantity is the one of
\* the last occurrence in the list; prices are equal when their decimal
\* values are.
C19_LastOccurrenceWins ==
    (pc = "built" /\ ValidSnapshot) =>
        \A side \in Sides :
            \A i \in 1..Len(SnapSide(side)) :
                LET p == SnapSide(side)[i][1]
                    held == {k \in 1..Len(SideOf(initial_book, side)) :
                                DecEq(SideOf(initial_book, side)[k][1], p)}
                IN /\ Cardinality(held) = 1
                   /\ \A k \in held :
                         SideOf(initial_book, side)[k][2] = LastQuantityAt(SnapSide(side), p)

----------------------------------------------------------------------------
(* C20 *)

\* The four defects the claim lists for an entry of a level list: not a
\* two-element pair, a field that is no text, a field Decimal does not parse,
\* a quantity below zero.
Defective(row) ==
    \/ Len(row) # 2
    \/ row[1] \in NonText \/ row[2] \in NonText
    \/ ~Decimal(row[1]).valid \/ ~Decimal(row[2]).valid
    \/ (~Decimal(row[2]).nan /\ DecValue(row[2]) < 0)

\* C20: parse_levels rejects a list exactly when some entry has one of the
\* four defects, with an error that identifies the index of the offending
\* entry and its raw values; a zero quantity is no defect; an accepted list is
\* returned with the same entries in the same order and the same texts.
C20_RejectsExactlyDefects ==
    LET defects == {i \in 1..Len(SnapAsks) : Defective(SnapAsks[i])}
    IN /\ pc = "parsed" => (defects = {} /\ events[1].a = SnapAsks)
       /\ pc = "parse_failed" =>
             /\ defects # {}
             /\ err.index + 1 \in defects
             /\ \A i \in defects : err.index + 1 <= i
             /\ MessageRow(err.kind, SnapAsks[err.index + 1]) = SnapAsks[err.index + 1]

----------------------------------------------------------------------------
(* C21 *)

\* A member as payload.get(key, []) reads it: its list, [] when it is absent.
ListOf(f) == IF f.t = "list" THEN f.v ELSE <<>>

\* C21: an update object reaches the book as the pair of the a/b lists of its
\* "data" object when it has a "data" member, of the object itself otherwise;
\* the book after the event is the one the flat form of these lists gives.
C21_Normalised ==
    (pc \in {"loop", "done"} /\ item # NoItem) =>
        LET chosen == IF item.shape = "nested" THEN item.data ELSE [a |-> item.a, b |-> item.b]
            ev == [a |-> ListOf(chosen.a), b |-> ListOf(chosen.b)]
        IN /\ events[Len(events)] = ev
           /\ book = apply_event(pre_book,
                         iter_depth_events(FlatItem(L(ev.a), L(ev.b)), 0).ev).book

\* An object with a "data" object and a/b of its own was applied: the ask of
\* the "data" object is in the book, the ask of the object itself is not.
C21_Witness ==
    /\ pc = "loop"
    /\ item = BothItem(L(<< <<"9.5", "2">> >>), AbsentField, L(<< <<"10.2", "3">> >>), L(<<>>))
    /\ pre_book = new_empty_book
    /\ book = [ask |-> << <<"9.5", "2">> >>, bid |-> <<>>]

----------------------------------------------------------------------------
(* C22 *)

\* The snapshot object the initial book is built from (the source is given
\* and yields one).
SeedObject == last_snapshot(snapshot).last

\* C22: a payload that lacks required keys makes the run fail: no update
\* object that carries neither "a" nor "b" (directly or under "data") is
\* applied as an event, and no book is built from a snapshot object that
\* lacks "asks" or "bids".
C22_MissingKeysRejected ==
    /\ (pc \in {"loop", "done"} /\ item # NoItem) =>
          (payload(item).a.t # "absent" \/ payload(item).b.t # "absent")
    /\ (pc \in {"loop", "done"} /\ snapshot.given) =>
          (SeedObject.asks.t # "absent" /\ SeedObject.bids.t # "absent")

----------------------------------------------------------------------------
(* C23 *)

\* C23: from a snapshot source that is a list of objects the initial book is
\* built from the last object only; a source that yields no object makes the
\* run fail before any event is applied, with no output; without a snapshot
\* source the run starts from the empty book.
C23_SnapshotSource ==
    /\ (snapshot.given /\ snapshot.shape = "list" /\ pc \in {"loop", "done"}) =>
          /\ snapshot.objs # <<>>
          /\ initial_book = book_from_snapshot(snapshot.objs[Len(snapshot.objs)]).book
    /\ (snapshot.given /\ snapshot.shape = "list" /\ snapshot.objs = <<>>) =>
          /\ pc \in {"build", "error"}
          /\ events = <<>> /\ states = <<>>
          /\ ~dumped.written /\ ~revert.written
    /\ (~snapshot.given /\ pc # "build") => initial_book = new_empty_book

\* A run seeded from a list of two objects that make different books.
C23_Witness ==
    /\ pc = "loop"
    /\ snapshot.given /\ snapshot.shape = "list" /\ Len(snapshot.objs) = 2
    /\ initial_book = book_from_snapshot(snapshot.objs[2]).book
    /\ initial_book # book_from_snapshot(snapshot.objs[1]).book
    /\ events # <<>>

----------------------------------------------------------------------------
(* C24 *)

\* Some entry of a level list is one parse_levels rejects.
HasMalformed(rows) == \E i \in 1..Len(rows) : RowError(rows[i]) # "none"

\* C24: validation in apply_event is all-or-nothing per side list: with a
\* malformed entry in the bid list the event leaves the book unchanged; with
\* a valid bid list and a malformed entry in the ask list every bid entry has
\* been applied and no ask entry, not even a valid one that precedes the
\* malformed one.
C24_AllOrNothingPerList ==
    pc \in {"applied", "failed"} =>
        /\ HasMalformed(TheEvent.b) => (pc = "failed" /\ book = pre_book)
        /\ (~HasMalformed(TheEvent.b) /\ HasMalformed(TheEvent.a)) =>
              /\ pc = "failed"
              /\ book.bid = UpsertAll(pre_book.bid, TheEvent.b)
              /\ book.ask = pre_book.ask

\* The ask list was rejected for its second entry; its first entry is valid
\* and would have changed the ask side, which is as it was.
C24_Witness ==
    /\ pc = "failed"
    /\ ~HasMalformed(TheEvent.b)
    /\ Len(TheEvent.a) = 2
    /\ RowError(TheEvent.a[1]) = "none"
    /\ RowError(TheEvent.a[2]) # "none"
    /\ Upsert(pre_book.ask, TheEvent.a[1][1], TheEvent.a[1][2]) # pre_book.ask
    /\ book = pre_book

----------------------------------------------------------------------------
(* C25 *)

\* Some level of the book has a quantity that is decimal-equal to zero.
HasZeroLevel(b) ==
    \E side \in Sides : \E i \in 1..Len(SideOf(b, side)) : DecValue(SideOf(b, side)[i][2]) = 0

\* The list of an event that goes to a side.
EventSide(ev, side) == IF side = "ask" THEN ev.a ELSE ev.b

\* C25: apply_event never introduces a zero-quantity level: a book without
\* one has none afterwards, whether the call succeeds or fails part-way; and
\* after a successful call every price whose last entry in a side list has
\* quantity zero is absent from that side (prices being equal when their
\* decimal values are).
C25_NoZeroIntroduced ==
    pc \in {"applied", "failed"} =>
        /\ ~HasZeroLevel(pre_book) => ~HasZeroLevel(book)
        /\ pc = "applied" =>
              \A side \in Sides :
                  \A i \in 1..Len(EventSide(TheEvent, side)) :
                      LET p == EventSide(TheEvent, side)[i][1]
                      IN DecValue(LastQuantityAt(EventSide(TheEvent, side), p)) = 0 =>
                             \A k \in 1..Len(SideOf(book, side)) :
                                 ~DecEq(SideOf(book, side)[k][1], p)

----------------------------------------------------------------------------
(* C26 *)

\* C26: if neither book holds a level whose quantity is decimal-equal to
\* zero, applying generate_revert_update(current, target), made with the
\* default zero sentinel, to current with apply_event makes each side of the
\* book equal to the same side of target as a mapping from price text to
\* quantity text, and applying it a second time changes nothing.
C26_RevertReachesTarget ==
    (~HasZeroLevel(initial_book) /\ ~HasZeroLevel(pre_book)) =>
        /\ pc = "reverted" =>
              /\ err = NoErr
              /\ SameMapping(book.ask, initial_book.ask)
              /\ SameMapping(book.bid, initial_book.bid)
        /\ pc = "reverted_twice" =>
              /\ err = NoErr
              /\ book = pre_book
              /\ SameMapping(book.ask, initial_book.ask)
              /\ SameMapping(book.bid, initial_book.bid)

\* The applied revert removed a level, changed or added another, and the
\* book, which differed from the target, now holds the target's levels.
C26_Witness ==
    /\ pc = "reverted"
    /\ \E i \in 1..Len(RevertSide("ask")) : RevertSide("ask")[i][2] = ZeroFmt
    /\ \E i \in 1..Len(RevertSide("ask")) : RevertSide("ask")[i][2] # ZeroFmt
    /\ Keys(initial_book.bid) \ Keys(pre_book.bid) # {}
    /\ ~SameMapping(pre_book.ask, initial_book.ask)
    /\ SameMapping(book.ask, initial_book.ask)
    /\ SameMapping(book.bid, initial_book.bid)

----------------------------------------------------------------------------
(* C27 *)

\* The dicts that hold the entries of d, in every insertion order.
Reorderings(d) ==
    LET idx == 1..Len(d)
        perms == {f \in [idx -> idx] : \A i, j \in idx : f[i] = f[j] => i = j}
    IN {[i \in idx |-> d[f[i]]] : f \in perms}

\* C27: the projection is a function of the book's content only: a book
\* whose sides hold the same (price text, quantity text) entries as the
\* working book, inserted in whatever order, has the same projection.
C27_ProjectionOfContent ==
    pc \in {"loop", "done"} =>
        \A x \in Reorderings(book.ask) : \A y \in Reorderings(book.bid) :
            book_to_levels([ask |-> x, bid |-> y]) = book_to_levels(book)

----------------------------------------------------------------------------
(* C28 *)

\* What the stride loop of main() (n += 1; apply_event; the stride test;
\* states.append) stores over the events evs from the book b, n being k.
RECURSIVE StrideOutput(_, _, _, _)
StrideOutput(b, evs, every, k) ==
    IF evs = <<>> THEN <<>>
    ELSE LET b1 == apply_event(b, evs[1]).book
         IN (IF stride_hit(k + 1, every) THEN <<book_to_levels(b1)>> ELSE <<>>)
                \o StrideOutput(b1, Tail(evs), every, k + 1)

\* The book the loops of main() leave after the events evs, in either mode.
RECURSIVE FinalBook(_, _)
FinalBook(b, evs) ==
    IF evs = <<>> THEN b ELSE FinalBook(apply_event(b, evs[1]).book, Tail(evs))

\* The output of the stride-1 run on the initial book and the events of this run.
StrideOne == StrideOutput(copy_book(initial_book), events, 1, 0)

\* C28: the sampling modes are views of one run: on the same initial book
\* and the same valid events the stride-k output is the sub-sequence of the
\* stride-1 output at the positions k, 2k, 3k, ...; the final-only projection
\* is, for one event or more, the last element of the stride-1 output; and
\* the final book is the same in every mode.
C28_ModesConsistent ==
    LET one == StrideOne
    IN /\ (pc \in {"loop", "done"} /\ ~final_only /\ store_every >= 1) =>
             states = [j \in 1..(Len(events) \div store_every) |-> one[j * store_every]]
       /\ (pc = "done" /\ final_only /\ Len(events) >= 1) =>
             states = <<one[Len(events)]>>
       /\ pc \in {"loop", "done"} => book = FinalBook(copy_book(initial_book), events)

\* A final-only run over three events that changed the book each time: its
\* one projection is the third of the stride-1 output, not an earlier one.
C28_Witness ==
    /\ pc = "done"
    /\ final_only
    /\ Len(events) = 3
    /\ states = <<StrideOne[3]>>
    /\ StrideOne[3] # StrideOne[2]
    /\ StrideOne[2] # StrideOne[1]
    /\ StrideOne[3] # book_to_levels(initial_book)

====
